---- MODULE Spec2Model ----
(***************************************************************************)
(* A model of pdh's command layer: PDH.list_incidents (src/pdh/core.py)    *)
(* and its inlined twin, the `inc ls` command (src/pdh/main.py), together  *)
(* with the one-shot commands of PDH (users, teams, services, ack,         *)
(* resolve, snooze, reassign).                                             *)
(*                                                                         *)
(* Python values are tagged records, so that values of different Python    *)
(* types can be compared: a str is [t |-> "str", v |-> <<code points>>],   *)
(* None is [t |-> "none"], a nested dict is [t |-> "dict", v |-> record],  *)
(* a list is [t |-> "list", v |-> sequence].  An incident (a Python dict)  *)
(* is a TLA+ record whose DOMAIN is the dict's key set.                    *)
(***************************************************************************)
EXTENDS Integers, Sequences, FiniteSets, TLC

\* Longest incident sequence the remote returns for one fetch.
MaxIncs == 3
\* Number of passes of the watching loop that are explored.
MaxPasses == 2

-----------------------------------------------------------------------------
(* Python values *)

NoneV == [t |-> "none"]
Str(s) == [t |-> "str", v |-> s]
Dict(d) == [t |-> "dict", v |-> d]
List(l) == [t |-> "list", v |-> l]

\* Python truthiness of an option value: None and "" are falsy.
Truthy(o) == o.t = "str" /\ Len(o.v) > 0
TruthyCsv(o) == o.t = "str" /\ o.csv # ""

\* The texts the model uses, as code points.
S_a == Str(<<97>>)
S_b == Str(<<98>>)
S_ab == Str(<<97, 98>>)
S_paren == Str(<<40>>)
S_P1 == Str(<<80, 49>>)
S_P2 == Str(<<80, 50>>)
S_P3 == Str(<<80, 51>>)
S_P4 == Str(<<80, 52>>)
URGENCY_HIGH == Str(<<104, 105, 103, 104>>)
URGENCY_LOW == Str(<<108, 111, 119>>)

\* Python's order on str: by code point, the first differing position
\* decides, a proper prefix is smaller.
RECURSIVE CodesLess(_, _)
CodesLess(a, b) ==
    IF b = <<>> THEN FALSE
    ELSE IF a = <<>> THEN TRUE
    ELSE IF Head(a) < Head(b) THEN TRUE
    ELSE IF Head(b) < Head(a) THEN FALSE
    ELSE CodesLess(Tail(a), Tail(b))

StrLess(x, y) == CodesLess(x.v, y.v)

\* x == y on values.
SameValue(x, y) == x.t = y.t /\ x = y

\* Python's order on the values used as sort keys: str against str, list
\* against list at the first element where they differ.
RECURSIVE PyLess(_, _)
PyLess(x, y) ==
    IF x.t = "str" THEN CodesLess(x.v, y.v)
    ELSE IF y.v = <<>> THEN FALSE
    ELSE IF x.v = <<>> THEN TRUE
    ELSE IF SameValue(Head(x.v), Head(y.v)) THEN PyLess(List(Tail(x.v)), List(Tail(y.v)))
    ELSE PyLess(Head(x.v), Head(y.v))

\* x < y raises TypeError: a str is ordered against a str only, a dict or
\* None against nothing, not even itself; lists are ordered by the first
\* element where they differ, and equal lists need no such element.
RECURSIVE Unorderable(_, _)
Unorderable(x, y) ==
    IF x.t = "str" /\ y.t = "str" THEN FALSE
    ELSE IF x.t = "list" /\ y.t = "list"
         THEN IF x.v = <<>> \/ y.v = <<>> THEN FALSE
              ELSE IF SameValue(Head(x.v), Head(y.v))
                   THEN Unorderable(List(Tail(x.v)), List(Tail(y.v)))
              ELSE Unorderable(Head(x.v), Head(y.v))
    ELSE TRUE

\* An option that lists field names ("id,title"): the text is kept as a
\* TLA+ string, since its parts are used as dict keys.
Csv(s) == [t |-> "str", csv |-> s]

\* str.split(",") on the field lists the model uses.
SplitCsv(s) ==
    CASE s = "title,urgency" -> <<"title", "urgency">>
      [] s = "urgency,id" -> <<"urgency", "id">>
      [] s = "id,title" -> <<"id", "title">>
      [] s = "id,urgency" -> <<"id", "urgency">>
      [] s = "id,title,urgency" -> <<"id", "title", "urgency">>
      [] s = "name,id" -> <<"name", "id">>
      [] s = "id,name" -> <<"id", "name">>
      [] OTHER -> <<s>>

HasComma(s) == Len(SplitCsv(s)) > 1

-----------------------------------------------------------------------------
(* The re module, on the patterns the model uses: a pattern is a literal   *)
(* text over {a, b} or contains "(", which no ")" closes.                  *)

\* re.compile(p) raises re.error.
ReMalformed(p) == \E i \in 1..Len(p.v) : p.v[i] = 40

\* pattern.search(s) for a literal pattern: p occurs in s.
ReSearch(p, s) ==
    \E i \in 0..(Len(s.v) - Len(p.v)) : SubSeq(s.v, i + 1, i + Len(p.v)) = p.v

-----------------------------------------------------------------------------
(* Filters (pdh.filters) *)

\* Filters.regexp(field, pattern)(item): a missing field does not match.
FiltersRegexp(field, p, item) ==
    /\ field \in DOMAIN item
    /\ item[field].t = "str"
    /\ ReSearch(p, item[field])

\* Filters.not_regexp(field, pattern)(item): the negation.
FiltersNotRegexp(field, p, item) == ~FiltersRegexp(field, p, item)

\* Filter.inList(field, values)(item).
FilterInList(field, values, item) ==
    /\ field \in DOMAIN item
    /\ \E k \in 1..Len(values) : values[k] = item[field]

\* Filters.apply(items, [f]): the items f holds for, in order.
FiltersApply(items, f(_)) == SelectSeq(items, f)

-----------------------------------------------------------------------------
(* Transformations (pdh.transformations) *)

\* The keys of a dotted path.
PathKeys(path) ==
    CASE path = "service.summary" -> <<"service", "summary">>
      [] path = "body.details" -> <<"body", "details">>
      [] OTHER -> <<path>>

\* Transformations.extract(path)(item): the value at the path, None when
\* the path is absent.
Extract(path, item) ==
    LET ks == PathKeys(path) IN
    IF ks[1] \notin DOMAIN item THEN NoneV
    ELSE IF Len(ks) = 1 THEN item[ks[1]]
    ELSE IF item[ks[1]].t = "dict" /\ ks[2] \in DOMAIN item[ks[1]].v
         THEN item[ks[1]].v[ks[2]]
    ELSE NoneV

\* str(value) as an f-string renders it.
Fmt(x) == IF x.t = "str" THEN x.v ELSE <<78, 111, 110, 101>>

\* mapper(item, d) of list_incidents: "[red]item[/red]" for a high
\* urgency record, "[cyan]item[/cyan]" otherwise.
Mapper(x, d) ==
    IF "urgency" \in DOMAIN d /\ d["urgency"] = URGENCY_HIGH
    THEN Str(<<91, 114, 101, 100, 93>> \o Fmt(x) \o <<91, 47, 114, 101, 100, 93>>)
    ELSE Str(<<91, 99, 121, 97, 110, 93>> \o Fmt(x)
             \o <<91, 47, 99, 121, 97, 110, 93>>)

\* Transformations.extract_alerts(field, alert_fields)(item): each alert
\* of the item projected on alert_fields.
ExtractAlerts(alert_fields, item) ==
    IF "alerts" \notin DOMAIN item \/ item["alerts"].t # "list" THEN NoneV
    ELSE List([k \in 1..Len(item["alerts"].v) |->
                 [f \in {alert_fields[j] : j \in 1..Len(alert_fields)} |->
                     Extract(f, item["alerts"].v[k])]])

\* The pattern extract_date parses with: the one it is given, or the
\* fixed pattern of the contract when it is given none.
DateFormat(fmt) == IF fmt = "default" THEN "%Y-%m-%dT%H:%M:%S%z" ELSE fmt

\* The value a rule of a transformation table computes for an item.
RuleValue(rule, item) ==
    CASE rule.kind = "extract" -> Extract(rule.path, item)
      [] rule.kind = "assignees" ->
           [t |-> "assignees", v |-> Extract("assignments", item)]
      [] rule.kind = "decorate" ->
           [t |-> "decorated", v |-> Extract(rule.path, item), maps |-> rule.maps]
      [] rule.kind = "mapper" -> Mapper(Extract(rule.path, item), item)
      [] rule.kind = "date" ->
           [t |-> "date", v |-> Extract(rule.path, item), fmt |-> DateFormat(rule.fmt)]
      [] rule.kind = "alerts" -> ExtractAlerts(rule.alert_fields, item)
      [] rule.kind = "users_teams" ->
           [t |-> "users_teams", v |-> Extract("teams", item)]

\* Transformations.apply(items, table, preserve): one output record per
\* item, in order; with preserve the item's other fields are kept.
TransformItem(item, table, preserve) ==
    [k \in (DOMAIN table) \cup (IF preserve THEN DOMAIN item ELSE {}) |->
        IF k \in DOMAIN table THEN RuleValue(table[k], item) ELSE item[k]]

TransformationsApply(items, table, preserve) ==
    [k \in 1..Len(items) |-> TransformItem(items[k], table, preserve)]

\* {"service": Transformations.extract("service.summary")}
ServiceTable == [service |-> [kind |-> "extract", path |-> "service.summary"]]

\* table[f] = rule
SetRule(table, f, rule) ==
    [k \in (DOMAIN table) \cup {f} |-> IF k = f THEN rule ELSE table[k]]

\* The body of `for f in fields:` of list_incidents: the rule of f, the
\* special cases overriding the plain extract in source order.
\* date_fmt tells core's explicit date format from main's default one.
FieldRule(f, alert_fields, date_fmt) ==
    IF f = "alerts" THEN [kind |-> "alerts", alert_fields |-> alert_fields]
    ELSE IF f \in {"created_at", "last_status_change_at"}
         THEN [kind |-> "date", path |-> f, fmt |-> date_fmt]
    ELSE IF f \in {"title", "urgency"} THEN [kind |-> "mapper", path |-> f]
    ELSE IF f = "url" THEN [kind |-> "extract", path |-> "html_url"]
    ELSE IF f = "status" THEN [kind |-> "decorate", path |-> "status", maps |-> "incident"]
    ELSE IF f = "assignee" THEN [kind |-> "assignees"]
    ELSE [kind |-> "extract", path |-> f]

RECURSIVE BuildTable(_, _, _, _)
BuildTable(fields, alert_fields, date_fmt, table) ==
    IF fields = <<>> THEN table
    ELSE LET f == Head(fields)
             t1 == SetRule(table, f, FieldRule(f, alert_fields, date_fmt))
             t2 == IF f = "service.summary"
                   THEN SetRule(t1, "service", ServiceTable.service)
                   ELSE t1
         IN BuildTable(Tail(fields), alert_fields, date_fmt, t2)

EmptyTable == [k \in {} |-> NoneV]

-----------------------------------------------------------------------------
(* sorted() *)

\* The key function raises KeyError on some item: a key is not in it.
MissingKey(items, ks) ==
    \E n \in 1..Len(items) : \E j \in 1..Len(ks) : ks[j] \notin DOMAIN items[n]

\* key=lambda x: [x[k] for k in sort_fields], or key=lambda x: x[sort_fields]
\* when scalar (a single field, in main.py and list_services).
SortKey(x, ks, scalar) ==
    IF scalar THEN x[ks[1]] ELSE List([j \in 1..Len(ks) |-> x[ks[j]]])

\* sorted() raises TypeError: two of the keys it has to order cannot be
\* compared.
TypeErrorRaised(items, ks, scalar) ==
    \E i, j \in 1..Len(items) :
        i < j /\ Unorderable(SortKey(items[i], ks, scalar), SortKey(items[j], ks, scalar))

\* Variants of the comparison sorted() makes: one that lets an equal key
\* overtake, one that never looks at reverse.
AheadStrict(ke, kx, reverse) == IF reverse THEN PyLess(kx, ke) ELSE PyLess(ke, kx)
AheadAscending(ke, kx, reverse) == ~PyLess(kx, ke)

\* e, already placed, stays ahead of x: x does not sort strictly before it.
Ahead(ke, kx, reverse) == IF reverse THEN ~PyLess(ke, kx) ELSE ~PyLess(kx, ke)

\* Insert x behind every placed element that stays ahead of it.
RECURSIVE InsertSorted(_, _, _, _, _)
InsertSorted(placed, x, ks, scalar, reverse) ==
    IF placed = <<>> THEN <<x>>
    ELSE IF Ahead(SortKey(placed[Len(placed)], ks, scalar),
                  SortKey(x, ks, scalar), reverse)
         THEN Append(placed, x)
    ELSE Append(InsertSorted(SubSeq(placed, 1, Len(placed) - 1), x, ks, scalar, reverse),
                placed[Len(placed)])

RECURSIVE SortFrom(_, _, _, _, _)
SortFrom(placed, rest, ks, scalar, reverse) ==
    IF rest = <<>> THEN placed
    ELSE SortFrom(InsertSorted(placed, Head(rest), ks, scalar, reverse),
                  Tail(rest), ks, scalar, reverse)

\* A variant of sorted() that reverses the ascending result when reverse
\* is set.
SortedReversing(items, ks, scalar, reverse) ==
    LET up == SortFrom(<<>>, items, ks, scalar, FALSE)
    IN  IF reverse THEN [k \in 1..Len(up) |-> up[Len(up) + 1 - k]] ELSE up

\* sorted(items, key=..., reverse=reverse): stable, also when reversed.
Sorted(items, ks, scalar, reverse) == SortFrom(<<>>, items, ks, scalar, reverse)

-----------------------------------------------------------------------------
(* The remote service (pdh.pd), as far as the commands see it *)

STATUS_TRIGGERED == Str(<<116, 114, 105, 103, 103, 101, 114, 101, 100>>)
CreatedAt == Str(<<50, 48, 50, 52>>)
S_err == Str(<<101, 114, 114>>)

Incident(id, title, urgency, summary) ==
    [id |-> id, title |-> title, urgency |-> urgency, status |-> STATUS_TRIGGERED,
     created_at |-> CreatedAt, assignments |-> List(<<>>),
     service |-> Dict([summary |-> summary])]

I1 == Incident(S_P1, S_ab, URGENCY_LOW, S_a)
I2 == Incident(S_P2, S_b, URGENCY_HIGH, S_ab)
I3 == Incident(S_P3, S_ab, URGENCY_LOW, S_b)
I4 == Incident(S_P4, S_a, URGENCY_HIGH, S_b)
IncidentPool == {I1, I2, I3, I4}

\* pd.incidents.alerts(id): the alerts of an incident.
AlertsOf(id) ==
    List(<<[id |-> id, status |-> STATUS_TRIGGERED, created_at |-> CreatedAt,
            service |-> Dict([summary |-> S_a]), body |-> Dict([details |-> S_b])]>>)

\* The incident lists a fetch may return: no incident twice, at most
\* MaxIncs incidents, in any order.
RECURSIVE ResponsesOfLen(_)
ResponsesOfLen(n) ==
    IF n = 0 THEN {<<>>}
    ELSE {Append(r, i) : r \in ResponsesOfLen(n - 1), i \in IncidentPool}

NoRepeat(r) == \A m, n \in 1..Len(r) : m # n => r[m] # r[n]

Responses == UNION {{r \in ResponsesOfLen(n) : NoRepeat(r)} : n \in 0..MaxIncs}

\* What a later fetch of a watching run may return after r: the list
\* without its first incident, or the list rotated by one; after an
\* empty list, nothing again or two incidents that have arrived.
Following(r) ==
    IF r = <<>> THEN {<<>>, <<I4, I3>>} ELSE {Tail(r), Append(Tail(r), Head(r))}

RECURSIVE FeedsFrom(_, _)
FeedsFrom(r, n) ==
    IF n <= 1 THEN {<<r>>}
    ELSE {<<r>> \o f : f \in UNION {FeedsFrom(q, n - 1) : q \in Following(r)}}

-----------------------------------------------------------------------------
(* State *)

VARIABLES
    opt,           \* the command and its options
    feed,          \* what the remote returns to the fetches still to come
    pc,            \* the place of the command in its code
    npass,         \* the pass of the listing loop, from 1
    fields,        \* the local `fields` of the running command
    alert_fields,  \* the local `alert_fields`
    incs,          \* the local `incs`
    filtered,      \* the local `filtered`
    stages,        \* the stages the current pass has run, in order
    calls,         \* the calls made to the remote client, in order
    out,           \* what was printed and rendered, in order
    result         \* how the command ended

vars == <<opt, feed, pc, npass, fields, alert_fields, incs, filtered, stages,
          calls, out, result>>

IsMain == opt.cmd = "inc_list"
IsIncLs == opt.cmd \in {"list_incidents", "inc_list"}

Msg(msg) == [k |-> "print", pass |-> npass, msg |-> msg]
Call(op, arg) == [pass |-> npass, op |-> op, arg |-> arg]

\* The command is over: it returned, exited or raised.
End(how) == pc' = "done" /\ result' = how

\* The remote client raises UnauthorizedException out of a call.
Unauthorized == "raise UnauthorizedException"

DefaultFields == <<"id", "assignee", "title", "status", "created_at", "service.summary">>
DefaultAlertFields == <<"status", "created_at", "service.summary", "body.details">>

\* The arguments of pd.incidents.list.
FetchArgs ==
    [userid |-> IF opt.everything THEN "None" ELSE "cfg.uid",
     statuses |-> IF opt.new THEN <<"triggered">> ELSE <<"triggered", "acknowledged">>,
     urgencies |-> IF opt.low THEN <<"low">>
                   ELSE IF opt.high THEN <<"high">> ELSE <<"high", "low">>,
     teams |-> "None"]

-----------------------------------------------------------------------------
(* list_incidents (core.py) and inc_list (main.py) *)

\* Up to the loop: the title patterns are compiled, a malformed one ends
\* the command; `fields` and `alert_fields` are set.
Prepare ==
    /\ pc = "start" /\ IsIncLs
    /\ IF \/ Truthy(opt.regexp) /\ ReMalformed(opt.regexp)
          \/ Truthy(opt.excluded_filter_re) /\ ReMalformed(opt.excluded_filter_re)
       THEN /\ out' = Append(out, Msg("Invalid regular expression"))
            /\ End(IF IsMain THEN "exit -2" ELSE "return False")
            /\ UNCHANGED <<fields, alert_fields>>
       ELSE /\ fields' = (IF opt.fields.t = "str" THEN SplitCsv(opt.fields.csv)
                          ELSE DefaultFields)
                         \o (IF opt.alerts THEN <<"alerts">> ELSE <<>>)
            /\ alert_fields' = DefaultAlertFields
            /\ pc' = "fetch"
            /\ UNCHANGED <<out, result>>
    /\ UNCHANGED <<opt, feed, npass, incs, filtered, stages, calls>>

\* A variant of the fetch that adds to the records of the pass before.
FetchKeeping ==
    /\ pc = "fetch" /\ feed # <<>>
    /\ stages' = <<"fetch">>
    /\ incs' = incs \o Head(feed)
    /\ feed' = Tail(feed)
    /\ calls' = Append(calls, [pass |-> npass, op |-> "incidents.list",
                               arg |-> FetchArgs, ret |-> List(Head(feed))])
    /\ pc' = "rules"
    /\ UNCHANGED <<opt, npass, fields, alert_fields, filtered, out, result>>

\* incs = pd.incidents.list(userid, statuses=..., urgencies=..., teams=...)
Fetch ==
    /\ pc = "fetch" /\ feed # <<>>
    /\ stages' = <<"fetch">>
    /\ \/ /\ incs' = Head(feed)
          /\ feed' = Tail(feed)
          /\ calls' = Append(calls, [pass |-> npass, op |-> "incidents.list",
                                     arg |-> FetchArgs, ret |-> List(Head(feed))])
          /\ pc' = "rules"
          /\ UNCHANGED result
       \/ /\ calls' = Append(calls, Call("incidents.list", FetchArgs))
          /\ End(Unauthorized)
          /\ UNCHANGED <<incs, feed>>
    /\ UNCHANGED <<opt, npass, fields, alert_fields, filtered, out>>

\* What pd.incidents.apply may return for incs: with no script the list
\* itself; with scripts the list, the list without its first incident, or
\* an error text.
\* A variant of the executor that returns nothing when it has no script.
RuleOutcomesDropping(l) ==
    {[scripts |-> 0, ret |-> List(<<>>)], [scripts |-> 1, ret |-> List(l)],
     [scripts |-> 1, ret |-> S_err]}

RuleOutcomes(l) ==
    {[scripts |-> 0, ret |-> List(l)], [scripts |-> 1, ret |-> List(l)],
     [scripts |-> 1, ret |-> S_err]}
    \cup (IF l = <<>> THEN {} ELSE {[scripts |-> 1, ret |-> List(Tail(l))]})

\* A variant of the rule stage that is left without records by an error.
ApplyRulesDropping ==
    /\ pc = "rules"
    /\ pc' = "title_re"
    /\ IF opt.rules
       THEN \E o \in RuleOutcomes(incs) :
              /\ stages' = Append(stages, "rules")
              /\ calls' = Append(calls, [pass |-> npass, op |-> "incidents.apply",
                                         arg |-> incs, scripts |-> o.scripts,
                                         ret |-> o.ret])
              /\ out' = out
                   \o (IF o.ret.t = "str" THEN <<[k |-> "print", pass |-> npass,
                                                 msg |-> "ret", text |-> o.ret]>>
                       ELSE <<>>)
              /\ incs' = IF o.ret.t = "str" THEN <<>> ELSE o.ret.v
       ELSE UNCHANGED <<stages, calls, out, incs>>
    /\ UNCHANGED <<opt, feed, npass, fields, alert_fields, filtered, result>>

\* if rules: the executable files are collected and applied.
ApplyRules ==
    /\ pc = "rules"
    /\ pc' = "title_re"
    /\ IF opt.rules
       THEN \E o \in RuleOutcomes(incs) :
              /\ stages' = Append(stages, "rules")
              /\ calls' = Append(calls, [pass |-> npass, op |-> "incidents.apply",
                                         arg |-> incs, scripts |-> o.scripts,
                                         ret |-> o.ret])
              /\ out' = out
                   \o (IF o.scripts = 0 THEN <<Msg("No rules found")>> ELSE <<>>)
                   \o (IF o.scripts > 0 /\ o.ret.t = "list"
                       THEN <<Msg("Applied rule")>> ELSE <<>>)
                   \o (IF o.ret.t = "str" THEN <<Msg("Error"),
                                                [k |-> "print", pass |-> npass,
                                                 msg |-> "ret", text |-> o.ret]>>
                       ELSE <<>>)
              /\ incs' = IF o.ret.t = "str" THEN incs ELSE o.ret.v
       ELSE UNCHANGED <<stages, calls, out, incs>>
    /\ UNCHANGED <<opt, feed, npass, fields, alert_fields, filtered, result>>

TitleMatches(i) == FiltersRegexp("title", opt.regexp, i)
TitleNotExcluded(i) == FiltersNotRegexp("title", opt.excluded_filter_re, i)
ServiceMatches(i) == FiltersRegexp("service", opt.service_re, i)
ServiceNotExcluded(i) == FiltersNotRegexp("service", opt.excluded_service_re, i)

\* if regexp: incs = Filters.apply(incs, [Filters.regexp("title", filter_re)])
FilterTitle ==
    /\ pc = "title_re"
    /\ pc' = "title_excl"
    /\ IF Truthy(opt.regexp)
       THEN /\ incs' = FiltersApply(incs, TitleMatches)
            /\ stages' = Append(stages, "title_re")
       ELSE UNCHANGED <<incs, stages>>
    /\ UNCHANGED <<opt, feed, npass, fields, alert_fields, filtered, calls, out, result>>

\* if excluded_filter_re: ... Filters.not_regexp("title", filter_excluded_re)
FilterTitleExcluded ==
    /\ pc = "title_excl"
    /\ pc' = "service_re"
    /\ IF Truthy(opt.excluded_filter_re)
       THEN /\ incs' = FiltersApply(incs, TitleNotExcluded)
            /\ stages' = Append(stages, "title_excl")
       ELSE UNCHANGED <<incs, stages>>
    /\ UNCHANGED <<opt, feed, npass, fields, alert_fields, filtered, calls, out, result>>

\* if service_re: the service summary is laid over "service", then
\* Filters.regexp("service", service_re) is built from the text of the
\* option; a malformed one raises re.error there.
FilterService ==
    /\ pc = "service_re"
    /\ IF Truthy(opt.service_re)
       THEN /\ stages' = Append(stages, "service_re")
            /\ IF ReMalformed(opt.service_re)
               THEN /\ incs' = TransformationsApply(incs, ServiceTable, TRUE)
                    /\ End("raise re.error")
               ELSE /\ incs' = FiltersApply(TransformationsApply(incs, ServiceTable, TRUE),
                                            ServiceMatches)
                    /\ pc' = "service_excl"
                    /\ UNCHANGED result
       ELSE /\ pc' = "service_excl"
            /\ UNCHANGED <<incs, stages, result>>
    /\ UNCHANGED <<opt, feed, npass, fields, alert_fields, filtered, calls, out>>

\* if excluded_service_re: the same with Filters.not_regexp.
FilterServiceExcluded ==
    /\ pc = "service_excl"
    /\ IF Truthy(opt.excluded_service_re)
       THEN /\ stages' = Append(stages, "service_excl")
            /\ IF ReMalformed(opt.excluded_service_re)
               THEN /\ incs' = TransformationsApply(incs, ServiceTable, TRUE)
                    /\ End("raise re.error")
               ELSE /\ incs' = FiltersApply(TransformationsApply(incs, ServiceTable, TRUE),
                                            ServiceNotExcluded)
                    /\ pc' = "alerts"
                    /\ UNCHANGED result
       ELSE /\ pc' = "alerts"
            /\ UNCHANGED <<incs, stages, result>>
    /\ UNCHANGED <<opt, feed, npass, fields, alert_fields, filtered, calls, out>>

\* i["alerts"] = value
WithAlerts(i) ==
    [k \in (DOMAIN i) \cup {"alerts"} |-> IF k = "alerts" THEN AlertsOf(i["id"]) ELSE i[k]]

AlertCalls(l, n) == [k \in 1..n |-> Call("incidents.alerts", l[k]["id"])]

\* A variant of the alerts stage that asks the remote again for the display.
EnrichAlertsTwice ==
    /\ pc = "alerts"
    /\ pc' = "transform"
    /\ IF opt.alerts
       THEN /\ stages' = Append(stages, "alerts")
            /\ incs' = [k \in 1..Len(incs) |-> WithAlerts(incs[k])]
            /\ calls' = calls \o AlertCalls(incs, Len(incs)) \o AlertCalls(incs, Len(incs))
       ELSE UNCHANGED <<incs, stages, calls>>
    /\ UNCHANGED <<opt, feed, npass, fields, alert_fields, filtered, out, result>>

\* if alerts: for i in incs: i["alerts"] = pd.incidents.alerts(i["id"])
\* The calls are made in order; one of them may raise.
EnrichAlerts ==
    /\ pc = "alerts"
    /\ IF opt.alerts
       THEN /\ stages' = Append(stages, "alerts")
            /\ \/ /\ incs' = [k \in 1..Len(incs) |-> WithAlerts(incs[k])]
                  /\ calls' = calls \o AlertCalls(incs, Len(incs))
                  /\ pc' = "transform"
                  /\ UNCHANGED result
               \/ \E n \in 1..Len(incs) :
                    /\ incs' = [k \in 1..Len(incs) |->
                                  IF k < n THEN WithAlerts(incs[k]) ELSE incs[k]]
                    /\ calls' = calls \o AlertCalls(incs, n)
                    /\ End(Unauthorized)
       ELSE /\ pc' = "transform"
            /\ UNCHANGED <<incs, stages, calls, result>>
    /\ UNCHANGED <<opt, feed, npass, fields, alert_fields, filtered, out>>

\* if output != "raw": filtered = Transformations.apply(incs, transformations)
\* else: filtered = incs
\* A variant of the transformation stage that hands over to the renderer.
TransformSkippingSort ==
    /\ pc = "transform"
    /\ pc' = "render"
    /\ IF opt.output # "raw"
       THEN /\ filtered' = TransformationsApply(incs,
                              BuildTable(fields, alert_fields,
                                         IF IsMain THEN "default" ELSE "%Y-%m-%dT%H:%M:%S%z",
                                         EmptyTable),
                              FALSE)
            /\ stages' = Append(stages, "transform")
       ELSE /\ filtered' = incs
            /\ UNCHANGED stages
    /\ UNCHANGED <<opt, feed, npass, fields, alert_fields, incs, calls, out, result>>

TransformForDisplay ==
    /\ pc = "transform"
    /\ pc' = "sort"
    /\ IF opt.output # "raw"
       THEN /\ filtered' = TransformationsApply(incs,
                              BuildTable(fields, alert_fields,
                                         IF IsMain THEN "default" ELSE "%Y-%m-%dT%H:%M:%S%z",
                                         EmptyTable),
                              FALSE)
            /\ stages' = Append(stages, "transform")
       ELSE /\ filtered' = incs
            /\ UNCHANGED stages
    /\ UNCHANGED <<opt, feed, npass, fields, alert_fields, incs, calls, out, result>>

\* sort_by.split(",") if "," in sort_by else [sort_by]
SortFields(sort_by) == IF HasComma(sort_by.csv) THEN SplitCsv(sort_by.csv) ELSE <<sort_by.csv>>

\* A variant of the sort stage that reports a KeyError and goes on.
SortStageReporting ==
    /\ pc = "sort"
    /\ pc' = "render"
    /\ IF TruthyCsv(opt.sort_by)
       THEN /\ stages' = Append(stages, "sort")
            /\ IF MissingKey(filtered, SortFields(opt.sort_by))
               THEN /\ out' = out \o <<Msg("Invalid sort field"), Msg("Available fields")>>
                    /\ UNCHANGED filtered
               ELSE /\ filtered' =
                         IF TypeErrorRaised(filtered, SortFields(opt.sort_by), FALSE)
                         THEN filtered
                         ELSE Sorted(filtered, SortFields(opt.sort_by),
                                     IsMain /\ Len(SortFields(opt.sort_by)) = 1,
                                     opt.reverse_sort)
                    /\ UNCHANGED out
       ELSE UNCHANGED <<filtered, stages, out>>
    /\ UNCHANGED <<opt, feed, npass, fields, alert_fields, incs, calls, result>>

\* A variant of the sort stage that lets a KeyError pass in silence.
SortStageSilent ==
    /\ pc = "sort"
    /\ pc' = "render"
    /\ IF TruthyCsv(opt.sort_by)
       THEN /\ stages' = Append(stages, "sort")
            /\ filtered' = IF \/ MissingKey(filtered, SortFields(opt.sort_by))
                              \/ TypeErrorRaised(filtered, SortFields(opt.sort_by), FALSE)
                           THEN filtered
                           ELSE Sorted(filtered, SortFields(opt.sort_by),
                                       IsMain /\ Len(SortFields(opt.sort_by)) = 1,
                                       opt.reverse_sort)
       ELSE UNCHANGED <<filtered, stages>>
    /\ UNCHANGED <<opt, feed, npass, fields, alert_fields, incs, calls, out, result>>

\* if sort_by: filtered = sorted(filtered, key=..., reverse=reverse_sort);
\* a KeyError of the key function ends the command.
SortStage ==
    /\ pc = "sort"
    /\ IF TruthyCsv(opt.sort_by)
       THEN /\ stages' = Append(stages, "sort")
            /\ IF MissingKey(filtered, SortFields(opt.sort_by))
               THEN /\ out' = out \o <<Msg("Invalid sort field"), Msg("Available fields")>>
                    /\ End(IF IsMain THEN "exit -2" ELSE "return False")
                    /\ UNCHANGED filtered
               ELSE IF TypeErrorRaised(filtered, SortFields(opt.sort_by),
                                       IsMain /\ Len(SortFields(opt.sort_by)) = 1)
               THEN /\ End("raise TypeError")
                    /\ UNCHANGED <<filtered, out>>
               ELSE /\ filtered' = Sorted(filtered, SortFields(opt.sort_by),
                                          IsMain /\ Len(SortFields(opt.sort_by)) = 1,
                                          opt.reverse_sort)
                    /\ pc' = "render"
                    /\ UNCHANGED <<out, result>>
       ELSE /\ pc' = "render"
            /\ UNCHANGED <<filtered, stages, out, result>>
    /\ UNCHANGED <<opt, feed, npass, fields, alert_fields, incs, calls>>

\* print_items(filtered, output, plain_print_f=plain_print_f)
Render ==
    /\ pc = "render"
    /\ pc' = "ack"
    /\ out' = Append(out, [k |-> "render", pass |-> npass, items |-> filtered,
                           mode |-> opt.output])
    /\ stages' = Append(stages, "render")
    /\ UNCHANGED <<opt, feed, npass, fields, alert_fields, incs, filtered, calls, result>>

\* ids = [i["id"] for i in incs]
Ids(l) == [k \in 1..Len(l) |-> l[k]["id"]]

\* A variant of a bulk action that acts on the records as displayed.
BulkActionOnDisplayed(enabled, stage, op, msg, next) ==
    /\ pc = stage
    /\ IF enabled
       THEN /\ stages' = Append(stages, stage)
            /\ calls' = Append(calls, Call(op, filtered))
            /\ \/ /\ out' = IF opt.output \in {"yaml", "json"} THEN out
                            ELSE Append(out, [k |-> "marked", pass |-> npass,
                                              msg |-> msg, ids |-> Ids(incs)])
                  /\ pc' = next
                  /\ UNCHANGED result
               \/ /\ End(Unauthorized)
                  /\ UNCHANGED out
       ELSE /\ pc' = next
            /\ UNCHANGED <<stages, calls, out, result>>
    /\ UNCHANGED <<opt, feed, npass, fields, alert_fields, incs, filtered>>

\* One bulk action: the remote call on incs, which may raise, then a line
\* per id unless the output is yaml or json.
BulkAction(enabled, stage, op, msg, next) ==
    /\ pc = stage
    /\ IF enabled
       THEN /\ stages' = Append(stages, stage)
            /\ calls' = Append(calls, Call(op, incs))
            /\ \/ /\ out' = IF opt.output \in {"yaml", "json"} THEN out
                            ELSE Append(out, [k |-> "marked", pass |-> npass,
                                              msg |-> msg, ids |-> Ids(incs)])
                  /\ pc' = next
                  /\ UNCHANGED result
               \/ /\ End(Unauthorized)
                  /\ UNCHANGED out
       ELSE /\ pc' = next
            /\ UNCHANGED <<stages, calls, out, result>>
    /\ UNCHANGED <<opt, feed, npass, fields, alert_fields, incs, filtered>>

\* if ack: pd.incidents.ack(incs)
AckStage == BulkAction(opt.ack, "ack", "incidents.ack", "ACK", "snooze")

\* if snooze: pd.incidents.snooze(incs)
SnoozeStage == BulkAction(opt.snooze, "snooze", "incidents.snooze", "Snoozing", "resolve")

\* if resolve: pd.incidents.resolve(incs)
ResolveStage == BulkAction(opt.resolve, "resolve", "incidents.resolve", "RESOLVED", "loop")

\* A variant of the end of a pass that leaves the loop also when watching.
EndPassOnce ==
    /\ pc = "loop"
    /\ End(IF IsMain THEN "exit 0" ELSE "return None")
    /\ UNCHANGED <<out, npass>>
    /\ UNCHANGED <<opt, feed, fields, alert_fields, incs, filtered, stages, calls>>

\* if not watch: break; else time.sleep(timeout); console.clear()
EndPass ==
    /\ pc = "loop"
    /\ IF ~opt.watch
       THEN /\ End(IF IsMain THEN "exit 0" ELSE "return None")
            /\ UNCHANGED <<out, npass>>
       ELSE /\ npass < MaxPasses
            /\ out' = out \o <<[k |-> "sleep", pass |-> npass], [k |-> "clear", pass |-> npass]>>
            /\ npass' = npass + 1
            /\ pc' = "fetch"
            /\ UNCHANGED result
    /\ UNCHANGED <<opt, feed, fields, alert_fields, incs, filtered, stages, calls>>

-----------------------------------------------------------------------------
(* The one-shot commands of PDH *)

S_active == Str(<<97, 99, 116, 105, 118, 101>>)
S_warning == Str(<<119, 97, 114, 110, 105, 110, 103>>)
S_critical == Str(<<99, 114, 105, 116, 105, 99, 97, 108>>)
S_disabled == Str(<<100, 105, 115, 97, 98, 108, 101, 100>>)

Service(id, name, status) == [id |-> id, name |-> name, status |-> status]
User(id, name) == [id |-> id, name |-> name, teams |-> List(<<>>)]
Team(id, summary) == [id |-> id, summary |-> summary]

\* status.split(",")
SplitStatus(s) ==
    CASE s = "active,warning,critical" -> <<S_active, S_warning, S_critical>>
      [] s = "disabled" -> <<S_disabled>>
      [] OTHER -> <<>>

\* The table of a plain field list: extract(f) for each f; of list_user
\* and get_user, "teams" is extract_users_teams() (always there in get_user).
PlainTable(fs, users, always_teams) ==
    [f \in {fs[j] : j \in 1..Len(fs)} \cup (IF always_teams THEN {"teams"} ELSE {}) |->
        IF f = "teams" /\ users THEN [kind |-> "users_teams"]
        ELSE [kind |-> "extract", path |-> f]]

\* The table of list_services.
ServicesTable(fs) ==
    [f \in {fs[j] : j \in 1..Len(fs)} |->
        IF f \in {"created_at", "updated_at"}
        THEN [kind |-> "date", path |-> f, fmt |-> "%Y-%m-%dT%H:%M:%S%z"]
        ELSE IF f = "url" THEN [kind |-> "extract", path |-> "html_url"]
        ELSE IF f = "status" THEN [kind |-> "decorate", path |-> "status", maps |-> "service"]
        ELSE [kind |-> "extract", path |-> f]]

\* fields of a one-shot command: the option split, or the default.
FieldsOr(default) == IF opt.fields.t = "str" THEN SplitCsv(opt.fields.csv) ELSE default

RenderEvent(items) == [k |-> "render", pass |-> npass, items |-> items, mode |-> opt.output]

\* A listing command whose remote call sits in try/except
\* UnauthorizedException: on the exception a message and False.
GuardedListing(cmd, op, table) ==
    /\ pc = "start" /\ opt.cmd = cmd /\ feed # <<>>
    /\ calls' = Append(calls, Call(op, <<>>))
    /\ \/ /\ out' = Append(out, RenderEvent(
                      IF opt.output = "raw" THEN Head(feed)
                      ELSE TransformationsApply(Head(feed), table, FALSE)))
          /\ End("return True")
       \/ /\ out' = Append(out, Msg("UnauthorizedException"))
          /\ End("return False")
    /\ feed' = Tail(feed)
    /\ UNCHANGED <<opt, npass, fields, alert_fields, incs, filtered, stages>>

\* PDH.list_user
ListUser ==
    GuardedListing("list_user", "users.list",
        PlainTable(FieldsOr(<<"id", "name", "email", "time_zone", "role", "job_title", "teams">>),
                   TRUE, FALSE))

\* What u.search(user, "id") may answer: nobody, or the user of that id.
FoundById == {<<>>, <<User(S_P1, S_a)>>}

\* PDH.get_user: users = u.search(user), and when that finds nothing
\* users = u.search(user, "id"); what the last search answered is rendered.
GetUser ==
    /\ pc = "start" /\ opt.cmd = "get_user" /\ feed # <<>>
    /\ \E byId \in FoundById :
       \E raises \in 0..(IF Head(feed) = <<>> THEN 2 ELSE 1) :
         LET users == IF Head(feed) = <<>> THEN byId ELSE Head(feed)
         IN /\ calls' = calls
                 \o <<IF raises = 1 THEN Call("users.search", "name")
                      ELSE [pass |-> npass, op |-> "users.search", arg |-> "name",
                            ret |-> List(Head(feed))]>>
                 \o (IF Head(feed) # <<>> \/ raises = 1 THEN <<>>
                     ELSE IF raises = 2 THEN <<Call("users.search", "id")>>
                     ELSE <<[pass |-> npass, op |-> "users.search", arg |-> "id",
                             ret |-> List(byId)]>>)
            /\ IF raises = 0
               THEN /\ out' = Append(out, RenderEvent(
                         IF opt.output = "raw" THEN users
                         ELSE TransformationsApply(users,
                                PlainTable(FieldsOr(<<"id", "name", "email", "time_zone",
                                                      "role", "job_title">>), TRUE, TRUE),
                                FALSE)))
                    /\ End("return True")
               ELSE /\ out' = Append(out, Msg("UnauthorizedException"))
                    /\ End("return False")
    /\ feed' = Tail(feed)
    /\ UNCHANGED <<opt, npass, fields, alert_fields, incs, filtered, stages>>

\* PDH.list_teams
ListTeams ==
    GuardedListing("list_teams", IF opt.mine THEN "me" ELSE "teams.list",
        PlainTable(IF opt.fields.t = "str" THEN SplitCsv(opt.fields.csv)
                   ELSE <<"id", "summary", "html_url">>, FALSE, FALSE))

ServiceStatusListed(i) == FilterInList("status", SplitStatus(opt.status), i)

\* PDH.list_services: fetch, status filter, transform, sort, render; the
\* UnauthorizedException and the KeyError of the sort are caught.
ListServices ==
    /\ pc = "start" /\ opt.cmd = "list_services" /\ feed # <<>>
    /\ calls' = Append(calls, Call("services.list", <<>>))
    /\ feed' = Tail(feed)
    /\ \/ LET svcs == FiltersApply(Head(feed), ServiceStatusListed)
              fs == FieldsOr(<<"id", "name", "description", "status", "created_at",
                               "updated_at", "html_url">>)
              shown == IF opt.output # "raw"
                       THEN TransformationsApply(svcs, ServicesTable(fs), FALSE)
                       ELSE svcs
          IN /\ fields' = fs
             /\ incs' = svcs
             /\ IF TruthyCsv(opt.sort_by)
                THEN /\ stages' = <<"sort">>
                     /\ IF MissingKey(shown, SortFields(opt.sort_by))
                        THEN /\ filtered' = shown
                             /\ out' = out \o <<Msg("Invalid sort field"),
                                                Msg("Available fields")>>
                             /\ End("return False")
                        ELSE /\ filtered' = Sorted(shown, SortFields(opt.sort_by),
                                                   Len(SortFields(opt.sort_by)) = 1,
                                                   opt.reverse_sort)
                             /\ out' = Append(out, RenderEvent(filtered'))
                             /\ End("return True")
                ELSE /\ stages' = <<>>
                     /\ filtered' = shown
                     /\ out' = Append(out, RenderEvent(shown))
                     /\ End("return True")
       \/ /\ out' = Append(out, Msg("UnauthorizedException"))
          /\ End("return False")
          /\ UNCHANGED <<fields, incs, filtered, stages>>
    /\ UNCHANGED <<opt, npass, alert_fields>>

\* A variant of the id filter that keeps every incident.
IdRequestedAny(i) == "id" \in DOMAIN i

IdRequested(i) == FilterInList("id", opt.incIDs, i)

\* PDH.ack, PDH.resolve, PDH.snooze and PDH.reassign: the incidents are
\* fetched, those whose id is in incIDs are kept and handed to the remote
\* call; reassign looks the user up in between and hands over what it
\* found.  No exception is caught: the call that raises has no answer.
MutatingCommand(cmd, op, lookups, users) ==
    /\ pc = "start" /\ opt.cmd = cmd /\ feed # <<>>
    /\ LET sel == FiltersApply(Head(feed), IdRequested)
           todo == <<[pass |-> npass, op |-> "incidents.list", arg |-> <<>>,
                      ret |-> List(Head(feed))]>>
                   \o lookups
                   \o <<IF cmd = "reassign"
                        THEN [pass |-> npass, op |-> op, arg |-> sel, users |-> users]
                        ELSE Call(op, sel)>>
       IN \E raises \in 0..Len(todo) :
            /\ incs' = IF raises = 1 THEN incs ELSE sel
            /\ calls' = calls \o (IF raises = 0 THEN todo
                                  ELSE SubSeq(todo, 1, raises - 1)
                                       \o <<Call(todo[raises].op, todo[raises].arg)>>)
            /\ out' = IF raises = 0 \/ raises = Len(todo)
                      THEN Append(out, [k |-> "marked", pass |-> npass, msg |-> cmd,
                                        ids |-> IF cmd \in {"ack", "resolve"}
                                                THEN Ids(sel) ELSE opt.incIDs,
                                        to |-> users])
                      ELSE out
            /\ End(IF raises = 0 THEN "return None" ELSE Unauthorized)
    /\ feed' = Tail(feed)
    /\ UNCHANGED <<opt, npass, fields, alert_fields, filtered, stages>>

AckCommand == MutatingCommand("ack", "incidents.ack", <<>>, NoneV)
ResolveCommand == MutatingCommand("resolve", "incidents.resolve", <<>>, NoneV)
SnoozeCommand == MutatingCommand("snooze", "incidents.snooze", <<>>, NoneV)

\* What pd.users.id(user) may answer: None, an empty text, an id.
S_PUSER == Str(<<80, 85>>)
UserIdAnswers == {NoneV, Str(<<>>), S_PUSER}

\* users is None or len(users) == 0
NoUserId(u) == u.t = "none" \/ u.v = <<>>

UserIdCall(answer) ==
    [pass |-> npass, op |-> "users.id", arg |-> "user", ret |-> answer]

\* users = pd.users.id(user), asked a second time when the first answer is
\* None or empty; the last answer goes to pd.incidents.reassign.
ReassignCommand ==
    \E first \in UserIdAnswers : \E second \in UserIdAnswers :
        MutatingCommand("reassign", "incidents.reassign",
                        <<UserIdCall(first)>>
                          \o (IF NoUserId(first) THEN <<UserIdCall(second)>> ELSE <<>>),
                        IF NoUserId(first) THEN second ELSE first)

-----------------------------------------------------------------------------
(* The inputs explored: the options of a command and the remote's lists *)

DefaultOpts ==
    [cmd |-> "list_incidents", output |-> "table", fields |-> NoneV,
     everything |-> FALSE, new |-> TRUE, high |-> FALSE, low |-> FALSE,
     watch |-> FALSE, rules |-> FALSE, alerts |-> FALSE,
     ack |-> FALSE, snooze |-> FALSE, resolve |-> FALSE,
     regexp |-> NoneV, excluded_filter_re |-> NoneV,
     service_re |-> NoneV, excluded_service_re |-> NoneV,
     sort_by |-> NoneV, reverse_sort |-> FALSE,
     status |-> "active,warning,critical", mine |-> TRUE, incIDs |-> <<>>]

ListingCommands == {"list_incidents", "inc_list"}

\* A few lists, for the runs that vary the options widely.
FewResponses == {<<>>, <<I2, I1>>, <<I1, I2, I3>>}

\* One list per pass of a watching run, one list otherwise.
Feeds(rs, watch) == UNION {FeedsFrom(r, IF watch THEN MaxPasses ELSE 1) : r \in rs}

FewFeedsOnce == Feeds(FewResponses, FALSE)
FewFeedsWatching == Feeds(FewResponses, TRUE)
AllFeedsOnce == Feeds(Responses, FALSE)
AllFeedsWatching == Feeds(Responses, TRUE)
MutatingFeeds == Feeds(FewResponses \cup {<<I4, I3, I1>>}, FALSE)

\* Every subset of the stages that options switch on before the display.
StageOpts ==
    {[DefaultOpts EXCEPT !.cmd = c, !.output = o, !.rules = r, !.alerts = al,
                         !.regexp = re, !.excluded_filter_re = ex,
                         !.service_re = sr, !.excluded_service_re = xs,
                         !.sort_by = Csv("id"), !.ack = TRUE, !.snooze = TRUE,
                         !.resolve = TRUE] :
        c \in ListingCommands, o \in {"table", "raw"}, r \in BOOLEAN, al \in BOOLEAN,
        re \in {NoneV, S_a}, ex \in {NoneV, S_b}, sr \in {NoneV, S_a}, xs \in {NoneV, S_b}}

\* Every subset of the bulk actions, with and without the sort, watching
\* or not, in each output mode.
ActionOpts ==
    {[DefaultOpts EXCEPT !.cmd = c, !.output = o, !.watch = w, !.sort_by = sb,
                         !.ack = a, !.snooze = sn, !.resolve = rs] :
        c \in ListingCommands, o \in {"table", "raw", "json"}, w \in BOOLEAN,
        sb \in {NoneV, Csv("id"), Csv("bogus")},
        a \in BOOLEAN, sn \in BOOLEAN, rs \in BOOLEAN}

\* Every subset of the four filters, on every list.
FilterOpts ==
    {[DefaultOpts EXCEPT !.cmd = c, !.output = o, !.fields = f, !.ack = TRUE,
                         !.regexp = re, !.excluded_filter_re = ex,
                         !.service_re = sr, !.excluded_service_re = xs] :
        c \in ListingCommands, o \in {"table", "raw"}, f \in {NoneV, Csv("title,urgency")},
        re \in {NoneV, S_a}, ex \in {NoneV, S_b}, sr \in {NoneV, S_a}, xs \in {NoneV, S_b}}

\* Each pattern absent, well formed or malformed.
PatternOpts ==
    {[DefaultOpts EXCEPT !.cmd = c, !.rules = r, !.ack = TRUE,
                         !.regexp = re, !.excluded_filter_re = ex,
                         !.service_re = sr, !.excluded_service_re = xs] :
        c \in ListingCommands, r \in BOOLEAN,
        re \in {NoneV, S_a, S_paren}, ex \in {NoneV, S_b, S_paren},
        sr \in {NoneV, S_a, S_paren}, xs \in {NoneV, S_b, S_paren}}

\* Sort keys and directions, on every list.
SortOpts ==
    {[DefaultOpts EXCEPT !.cmd = c, !.output = o, !.fields = f, !.sort_by = sb,
                         !.reverse_sort = rv, !.snooze = TRUE] :
        c \in ListingCommands, o \in {"table", "raw"},
        f \in {NoneV, Csv("id,title,urgency")},
        sb \in {Csv("id"), Csv("urgency"), Csv("title"), Csv("title,urgency"),
                Csv("urgency,id"), Csv("bogus"), Csv("service")},
        rv \in BOOLEAN}

\* Watching runs: with and without rules, alerts, a sort and its errors
\* (a field no record has, a field whose values sorted() cannot order).
WatchOpts ==
    {[DefaultOpts EXCEPT !.cmd = c, !.output = o, !.watch = TRUE, !.rules = r,
                         !.alerts = al, !.sort_by = sb, !.service_re = sr,
                         !.resolve = TRUE] :
        c \in ListingCommands, o \in {"table", "raw"}, r \in BOOLEAN, al \in BOOLEAN,
        sb \in {NoneV, Csv("id"), Csv("bogus"), Csv("service")}, sr \in {NoneV, S_a}}

U1 == User(S_P1, S_a)
T1 == Team(S_P1, S_a)
Sv1 == Service(S_P1, S_b, S_active)
Sv2 == Service(S_P2, S_a, S_warning)
Sv3 == Service(S_P3, S_b, S_active)
Sv4 == Service(S_P4, S_a, S_disabled)

ServiceLists == {<<>>, <<Sv1>>, <<Sv1, Sv2, Sv3>>, <<Sv3, Sv4, Sv2, Sv1>>}

UserOpts ==
    {[DefaultOpts EXCEPT !.cmd = c, !.output = o, !.fields = f, !.mine = m] :
        c \in {"list_user", "get_user", "list_teams"}, o \in {"table", "raw"},
        f \in {NoneV, Csv("id,name")}, m \in BOOLEAN}

ServiceOpts ==
    {[DefaultOpts EXCEPT !.cmd = "list_services", !.output = o, !.fields = f,
                         !.sort_by = sb, !.reverse_sort = rv, !.status = st] :
        o \in {"table", "raw"}, f \in {NoneV, Csv("id,name")},
        sb \in {NoneV, Csv("name"), Csv("name,id"), Csv("bogus")},
        rv \in BOOLEAN, st \in {"active,warning,critical", "disabled"}}

MutatingOpts ==
    {[DefaultOpts EXCEPT !.cmd = c, !.incIDs = ids] :
        c \in {"ack", "resolve", "snooze", "reassign"},
        ids \in {<<>>, <<S_P1>>, <<S_P3, S_P1>>, <<S_P4>>, <<S_P4, S_P2>>}}

ControlOpts == StageOpts \cup ActionOpts \cup PatternOpts \cup WatchOpts
DataOpts == FilterOpts \cup SortOpts

\* The options of a command and the lists the remote will return: one
\* list per pass of a listing loop, one list for a one-shot command.
InitInputs ==
    \/ \E o \in ControlOpts :
         opt = o /\ feed \in (IF o.watch THEN FewFeedsWatching ELSE FewFeedsOnce)
    \/ \E o \in DataOpts :
         opt = o /\ feed \in (IF o.watch THEN AllFeedsWatching ELSE AllFeedsOnce)
    \/ \E o \in MutatingOpts : opt = o /\ feed \in MutatingFeeds
    \/ \E o \in ServiceOpts : opt = o /\ feed \in {<<l>> : l \in ServiceLists}
    \/ \E o \in UserOpts :
         opt = o /\ feed \in (IF o.cmd = "list_teams" THEN {<<<<T1>>>>}
                              ELSE {<<<<>>>>, <<<<U1>>>>})

Started ==
    /\ pc = "start"
    /\ npass = 1
    /\ fields = <<>>
    /\ alert_fields = <<>>
    /\ incs = <<>>
    /\ filtered = <<>>
    /\ stages = <<>>
    /\ calls = <<>>
    /\ out = <<>>
    /\ result = "running"

Init == InitInputs /\ Started

Next ==
    \/ Prepare
    \/ Fetch
    \/ ApplyRules
    \/ FilterTitle
    \/ FilterTitleExcluded
    \/ FilterService
    \/ FilterServiceExcluded
    \/ EnrichAlerts
    \/ TransformForDisplay
    \/ SortStage
    \/ Render
    \/ AckStage
    \/ SnoozeStage
    \/ ResolveStage
    \/ EndPass
    \/ ListUser
    \/ GetUser
    \/ ListTeams
    \/ ListServices
    \/ AckCommand
    \/ ResolveCommand
    \/ SnoozeCommand
    \/ ReassignCommand

Spec == Init /\ [][Next]_vars

-----------------------------------------------------------------------------
(* Properties *)

StageOrder ==
    <<"fetch", "rules", "title_re", "title_excl", "service_re", "service_excl",
      "alerts", "transform", "sort", "render", "ack", "snooze", "resolve">>

Rank(st) == CHOOSE k \in 1..Len(StageOrder) : StageOrder[k] = st

\* The stages the options switch on.
EnabledStages ==
    {"fetch", "render"}
    \cup (IF opt.rules THEN {"rules"} ELSE {})
    \cup (IF Truthy(opt.regexp) THEN {"title_re"} ELSE {})
    \cup (IF Truthy(opt.excluded_filter_re) THEN {"title_excl"} ELSE {})
    \cup (IF Truthy(opt.service_re) THEN {"service_re"} ELSE {})
    \cup (IF Truthy(opt.excluded_service_re) THEN {"service_excl"} ELSE {})
    \cup (IF opt.alerts THEN {"alerts"} ELSE {})
    \cup (IF opt.output # "raw" THEN {"transform"} ELSE {})
    \cup (IF TruthyCsv(opt.sort_by) THEN {"sort"} ELSE {})
    \cup (IF opt.ack THEN {"ack"} ELSE {})
    \cup (IF opt.snooze THEN {"snooze"} ELSE {})
    \cup (IF opt.resolve THEN {"resolve"} ELSE {})

StagesRun == {stages[k] : k \in 1..Len(stages)}

\* C1: in every pass of the listing loop, of core.py and of main.py, the
\* stages run in the order fetch, rule-apply, title filter, excluded-title
\* filter, service filter, excluded-service filter, alerts, transform,
\* sort, render, ack, snooze, resolve, each at most once and only if
\* enabled; a pass that reaches its end has run every enabled stage.
C1_StagesInOrder ==
    IsIncLs =>
        /\ \A i, j \in 1..Len(stages) : i < j => Rank(stages[i]) < Rank(stages[j])
        /\ StagesRun \subseteq EnabledStages
        /\ pc = "loop" => StagesRun = EnabledStages

\* A pass that ran all thirteen stages, in the second pass of a watching
\* run or in a single pass.
C1_Witness == IsIncLs /\ pc = "loop" /\ Len(stages) = 13

\* The events of the current pass.
RendersOfPass == {k \in 1..Len(out) : out[k].k = "render" /\ out[k].pass = npass}
BulkOps == {"incidents.ack", "incidents.snooze", "incidents.resolve"}
BulkCallsOfPass ==
    {k \in 1..Len(calls) : calls[k].op \in BulkOps /\ calls[k].pass = npass}

IdSet(l) == {l[k]["id"] : k \in {n \in 1..Len(l) : "id" \in DOMAIN l[n]}}

\* a and b hold the same records, each as often.
SameBag(a, b) ==
    /\ Len(a) = Len(b)
    /\ \A x \in {a[k] : k \in 1..Len(a)} \cup {b[k] : k \in 1..Len(b)} :
         Cardinality({k \in 1..Len(a) : a[k] = x})
           = Cardinality({k \in 1..Len(b) : b[k] = x})

\* What the display shows for the records l.
Displayed(l) ==
    IF opt.output = "raw" THEN l
    ELSE TransformationsApply(l, BuildTable(fields, alert_fields,
                                 IF IsMain THEN "default" ELSE "%Y-%m-%dT%H:%M:%S%z",
                                 EmptyTable), FALSE)

\* C2: in every pass of the listing loop, the incidents handed to ack,
\* snooze and resolve are the incidents that pass rendered: the records
\* rendered are the display form of the records acted on (the records
\* themselves in raw mode), in some order, and the ids shown, when the
\* display has an id column, are the ids acted on.
C2_ActsOnRendered ==
    IsIncLs =>
        \A c \in BulkCallsOfPass :
            /\ RendersOfPass # {}
            /\ \A r \in RendersOfPass :
                 /\ SameBag(out[r].items, Displayed(calls[c].arg))
                 /\ (opt.output = "raw" \/ \E k \in 1..Len(fields) : fields[k] = "id")
                      => IdSet(out[r].items) = IdSet(calls[c].arg)
            /\ calls[c].arg = incs

\* A bulk action on two incidents or more, after a filter removed one,
\* with a display that has no id column.
C2_Witness ==
    /\ IsIncLs
    /\ \E c \in BulkCallsOfPass :
         /\ Len(calls[c].arg) >= 2
         /\ \E f \in 1..Len(calls) :
              /\ calls[f].op = "incidents.list" /\ calls[f].pass = npass
              /\ "ret" \in DOMAIN calls[f]
              /\ Len(calls[f].ret.v) > Len(calls[c].arg)
    /\ opt.output = "table"
    /\ opt.fields = Csv("title,urgency")

AuthorizationFailed ==
    \/ result = Unauthorized
    \/ \E k \in 1..Len(out) : out[k].k = "print" /\ out[k].msg = "UnauthorizedException"

\* C3 (as claimed): an authorization failure raised by the remote client
\* is caught by the command: a message is printed, the command reports
\* failure, and the exception does not leave the command.
C3_AuthFailureCaught ==
    AuthorizationFailed =>
        /\ result \in {"return False", "exit 1"}
        /\ \E k \in 1..Len(out) : out[k].k = "print" /\ out[k].msg = "UnauthorizedException"

PatternErrorSurfaced ==
    \/ result = "raise re.error"
    \/ \E k \in 1..Len(out) : out[k].k = "print" /\ out[k].msg = "Invalid regular expression"

\* C4 (as claimed): a malformed pattern in any of regexp,
\* excluded_filter_re, service_re, excluded_service_re is reported before
\* any record is processed: when the error surfaces no fetch, no rule
\* run, no render and no bulk action has happened, and it is reported as
\* a configuration error.
C4_PatternsFailFast ==
    (IsIncLs /\ PatternErrorSurfaced) =>
        /\ calls = <<>>
        /\ \A k \in 1..Len(out) : out[k].k # "render"
        /\ result \in {"return False", "exit -2"}

InvalidSortReported ==
    \E k \in 1..Len(out) : out[k].k = "print" /\ out[k].msg = "Invalid sort field"

SortsRecords == IsIncLs \/ opt.cmd = "list_services"

\* The sort stage of the current pass has run.
SortRan == SortsRecords /\ "sort" \in StagesRun
SortSucceeded == SortRan /\ ~InvalidSortReported /\ result # "raise TypeError"

\* The sort fields and the records the sort stage was given.
SortedOn == SortFields(opt.sort_by)
PreSort ==
    IF opt.output = "raw" THEN incs
    ELSE IF IsIncLs THEN Displayed(incs)
    ELSE TransformationsApply(incs, ServicesTable(fields), FALSE)

\* The command sorts on x[field], not on [x[field]].
ScalarKey == opt.cmd # "list_incidents" /\ Len(SortedOn) = 1

\* The keys the records to be sorted have with these options, whatever
\* the remote returns.
SortableKeys ==
    IF opt.output # "raw" THEN DOMAIN TransformItem(I1, IF IsIncLs
                                    THEN BuildTable(fields, alert_fields, "default", EmptyTable)
                                    ELSE ServicesTable(fields), FALSE)
    ELSE IF IsIncLs THEN (DOMAIN I1) \cup (IF opt.alerts THEN {"alerts"} ELSE {})
    ELSE DOMAIN Sv1

UnknownSortField == \E j \in 1..Len(SortedOn) : SortedOn[j] \notin SortableKeys

FailureResult == result \in {"return False", "exit -2", "exit 1"}

\* C5 (as claimed): whenever the sort stage runs with a sort_by naming a
\* field that is not a key of the records to be sorted, the invalid sort
\* field is reported and the command ends with a failure result, for
\* every record sequence, the empty one included.
C5_InvalidSortAlwaysReported ==
    (SortRan /\ UnknownSortField) => (InvalidSortReported /\ FailureResult)

\* C5 (amended): when the sort stage runs with a sort_by naming a field
\* that is not a key of the records to be sorted, the invalid sort field
\* and the available fields are reported and the command ends with a
\* failure result, without rendering in that pass, iff the sequence to be
\* sorted is not empty; on an empty sequence nothing is reported and the
\* command goes on.
C5_InvalidSortReported ==
    SortRan =>
        /\ InvalidSortReported <=> (UnknownSortField /\ filtered # <<>>)
        /\ InvalidSortReported =>
             /\ FailureResult /\ pc = "done"
             /\ \E k \in 1..Len(out) : out[k].k = "print" /\ out[k].msg = "Available fields"
             /\ RendersOfPass = {}
             /\ BulkCallsOfPass = {}

\* The error reported on two records or more.
C5_Witness == SortRan /\ InvalidSortReported /\ Len(filtered) >= 2 /\ FailureResult

\* The records the filters of the current pass were given: what the rule
\* pass returned, or the fetch when no rule pass replaced it.
FetchOfPass ==
    {k \in 1..Len(calls) : calls[k].op = "incidents.list" /\ calls[k].pass = npass
                           /\ "ret" \in DOMAIN calls[k]}
RulesOfPass ==
    {k \in 1..Len(calls) : calls[k].op = "incidents.apply" /\ calls[k].pass = npass
                           /\ calls[k].ret.t = "list"}
SourceOfPass ==
    IF RulesOfPass # {} THEN calls[CHOOSE k \in RulesOfPass : TRUE].ret.v
    ELSE calls[CHOOSE k \in FetchOfPass : TRUE].ret.v

\* a and b have the same fields with the same values.
SameRecord(a, b) ==
    /\ DOMAIN a = DOMAIN b
    /\ \A f \in DOMAIN a : a[f].t = b[f].t /\ a[f] = b[f]

\* C6 (as claimed): in raw mode every record handed to the renderer is
\* field for field the record the fetch (or the rule pass) returned for
\* that incident, whatever service_re, excluded_service_re and alerts are.
C6_RawIsOriginal ==
    (IsIncLs /\ opt.output = "raw") =>
        \A r \in RendersOfPass :
            \A k \in 1..Len(out[r].items) :
                \E n \in 1..Len(SourceOfPass) :
                    SameRecord(SourceOfPass[n], out[r].items[k])

\* The predicate the enabled filters stand for, on a record as fetched.
ShouldSurvive(i) ==
    /\ Truthy(opt.regexp) => ReSearch(opt.regexp, i["title"])
    /\ Truthy(opt.excluded_filter_re) => ~ReSearch(opt.excluded_filter_re, i["title"])
    /\ Truthy(opt.service_re) => ReSearch(opt.service_re, i["service"].v["summary"])
    /\ Truthy(opt.excluded_service_re)
         => ~ReSearch(opt.excluded_service_re, i["service"].v["summary"])

\* C7 (as claimed): after the filter stages of a pass the records left
\* are, in fetch order, exactly those for which every enabled predicate
\* holds: title matches regexp, title does not match excluded_filter_re,
\* service summary matches service_re, service summary does not match
\* excluded_service_re, for every subset of the four options.
C7_FiltersConjoin ==
    (IsIncLs /\ pc = "alerts") => Ids(incs) = Ids(SelectSeq(SourceOfPass, ShouldSurvive))

Reverse(l) == [k \in 1..Len(l) |-> l[Len(l) + 1 - k]]

\* a sorts strictly before b on the tuple of the sort fields, the first
\* field deciding first.
TupleBefore(a, b) ==
    \E j \in 1..Len(SortedOn) :
        /\ \A m \in 1..(j - 1) : SameValue(a[SortedOn[m]], b[SortedOn[m]])
        /\ a[SortedOn[j]].t = "str" /\ b[SortedOn[j]].t = "str"
        /\ StrLess(a[SortedOn[j]], b[SortedOn[j]])

SameKey(a, b) == \A j \in 1..Len(SortedOn) : SameValue(a[SortedOn[j]], b[SortedOn[j]])

Perms(n) == {p \in [1..n -> 1..n] : \A i, j \in 1..n : i # j => p[i] # p[j]}

\* filtered is PreSort rearranged so that the keys never decrease
\* (never increase when descending) and records of equal key keep the
\* order they had in PreSort.
StablySorted(descending) ==
    /\ Len(filtered) = Len(PreSort)
    /\ \E p \in Perms(Len(PreSort)) :
         /\ \A k \in 1..Len(PreSort) : filtered[k] = PreSort[p[k]]
         /\ \A i, j \in 1..Len(PreSort) : i < j =>
              /\ IF descending THEN ~TupleBefore(PreSort[p[i]], PreSort[p[j]])
                 ELSE ~TupleBefore(PreSort[p[j]], PreSort[p[i]])
              /\ SameKey(PreSort[p[i]], PreSort[p[j]]) => p[i] < p[j]

\* Two different records of equal key, and two of different keys.
HasTieAndOrder(l) ==
    /\ \E i, j \in 1..Len(l) : i # j /\ l[i] # l[j] /\ SameKey(l[i], l[j])
    /\ \E i, j \in 1..Len(l) : ~SameKey(l[i], l[j])

\* C8: with reverse off, the sort stage orders the records by the tuple
\* of the values of the sort fields, the first field being the primary
\* key, and records of equal key tuples keep their relative order.
C8_SortStable == (SortSucceeded /\ ~opt.reverse_sort) => StablySorted(FALSE)

\* A sort on two fields that moved records and met a tie.
C8_Witness ==
    /\ SortSucceeded /\ ~opt.reverse_sort
    /\ Len(SortedOn) = 2
    /\ HasTieAndOrder(PreSort)
    /\ filtered # PreSort

UrgencyLowHighLow ==
    /\ IsIncLs /\ SortedOn = <<"urgency">>
    /\ Len(incs) = 3
    /\ incs[1]["urgency"] = URGENCY_LOW
    /\ incs[2]["urgency"] = URGENCY_HIGH
    /\ incs[3]["urgency"] = URGENCY_LOW

\* C9 (as claimed): with reverse sort the records are in descending key
\* order, ties in their original order, and the urgency values low, high,
\* low come out as high, low, low, the first low ahead of the second.
C9_DescendingHighFirst ==
    (SortSucceeded /\ opt.reverse_sort) =>
        /\ StablySorted(TRUE)
        /\ (UrgencyLowHighLow /\ \A k \in 1..3 : "id" \in DOMAIN filtered[k])
             => Ids(filtered) = <<incs[2]["id"], incs[1]["id"], incs[3]["id"]>>

\* C9 (amended): with reverse sort the records are in descending key
\* order, the keys compared as Python compares them (str by code point, so
\* "low" > "high"), and records of equal key keep their original relative
\* order: raw records of urgency low, high, low come out as low, low,
\* high, the first low still ahead of the second.
C9_DescendingStable ==
    (SortSucceeded /\ opt.reverse_sort) =>
        /\ StablySorted(TRUE)
        /\ (UrgencyLowHighLow /\ opt.output = "raw")
             => filtered = <<incs[1], incs[3], incs[2]>>

\* The raw records low, high, low sorted on urgency, descending.
C9_Witness ==
    /\ SortSucceeded /\ opt.reverse_sort
    /\ UrgencyLowHighLow /\ opt.output = "raw"
    /\ pc = "render"

\* C10 (as claimed): the reverse-sorted result is the element-by-element
\* reversal of the stable ascending sort of the same input.
C10_ReverseOfAscending ==
    (SortSucceeded /\ opt.reverse_sort) =>
        filtered = Reverse(Sorted(PreSort, SortedOn, ScalarKey, FALSE))

\* C10 (amended): with reverse sort the keys are in the reverse of the
\* ascending order, but records of equal key keep their original relative
\* order: the result is the reversal of the stable ascending sort of the
\* reversed input.
C10_ReverseKeepsTies ==
    (SortSucceeded /\ opt.reverse_sort) =>
        filtered = Reverse(Sorted(Reverse(PreSort), SortedOn, ScalarKey, FALSE))

\* A reverse sort that met a tie between different records.
C10_Witness ==
    /\ SortSucceeded /\ opt.reverse_sort
    /\ HasTieAndOrder(PreSort)
    /\ filtered # PreSort

\* The watching runs and the one-shot commands, where the program keeps
\* running: a step that can be taken is taken (the sleep ends, the remote
\* answers).
WatchInputs ==
    \/ \E o \in WatchOpts : opt = o /\ feed \in FewFeedsWatching
    \/ \E o \in {a \in ActionOpts : ~a.watch /\ a.output = "table"} :
         opt = o /\ feed \in FewFeedsOnce
    \/ \E o \in MutatingOpts : opt = o /\ feed \in MutatingFeeds
    \/ \E o \in ServiceOpts : opt = o /\ feed \in {<<l>> : l \in ServiceLists}
    \/ \E o \in UserOpts :
         opt = o /\ feed \in (IF o.cmd = "list_teams" THEN {<<<<T1>>>>}
                              ELSE {<<<<>>>>, <<<<U1>>>>})

WatchInit == WatchInputs /\ Started

FairSpec == WatchInit /\ [][Next]_vars /\ WF_vars(Next)

Returned == result \in {"return None", "return False", "exit 0", "exit -2"}
FetchesMade == {k \in 1..Len(calls) : calls[k].op = "incidents.list"}

\* C11 (as claimed): once list_incidents is in its loop with watch
\* enabled, no outcome of a pass makes it return: not an empty result, not
\* a rule error, not an invalid sort field.
C11_WatchNeverReturns ==
    (IsIncLs /\ opt.watch /\ FetchesMade # {}) => ~Returned

\* An exception the command does not catch has propagated out of it.
Raised == result \in {Unauthorized, "raise re.error", "raise TypeError"}

\* What holds of the loop in every state: without watch there is one pass;
\* a watching loop returns only from the handler of an invalid sort field,
\* in the sort stage, on a non-empty sequence; a loop that is over and did
\* not return was left by an exception.
LoopInvariant ==
    IsIncLs =>
        /\ ~opt.watch => (npass = 1 /\ Cardinality(FetchesMade) <= 1)
        /\ (opt.watch /\ FetchesMade # {} /\ Returned)
             => /\ InvalidSortReported /\ FailureResult
                /\ stages # <<>> /\ stages[Len(stages)] = "sort"
                /\ filtered # <<>>
        /\ (pc = "done" /\ ~Returned) => Raised

\* What the end of a pass does.
LoopStep ==
    (IsIncLs /\ pc = "loop") =>
        IF opt.watch
        THEN /\ out' = out \o <<[k |-> "sleep", pass |-> npass],
                                [k |-> "clear", pass |-> npass]>>
             /\ npass' = npass + 1
             /\ pc' = "fetch"
             /\ result' = result
        ELSE /\ pc' = "done"
             /\ result' \in {"return None", "exit 0"}
             /\ out' = out

\* C11 (amended): with watch disabled list_incidents performs exactly one
\* pass and returns; with watch enabled every pass that reaches its end,
\* whatever it found (an empty result and a rule error included), is
\* followed by a sleep, a clear and another pass from the fetch; of the
\* outcomes of a pass only an invalid sort field detected on a non-empty
\* sequence makes the watching loop return, and otherwise the loop ends
\* only when an exception it does not catch propagates out of a pass.
C11_WatchLoop ==
    /\ []LoopInvariant
    /\ [][LoopStep]_vars
    /\ (IsIncLs /\ pc = "loop" /\ opt.watch /\ npass = 1)
         ~> (pc = "fetch" /\ npass = 2)
    /\ (IsIncLs /\ pc = "loop" /\ ~opt.watch) ~> (pc = "done" /\ Returned)

\* A watching run at the end of its second pass, after a first pass that
\* met a rule error and rendered nothing.
C11_Witness ==
    /\ IsIncLs /\ opt.watch /\ npass = 2 /\ pc = "loop"
    /\ \E k \in 1..Len(out) : out[k].k = "print" /\ out[k].pass = 1 /\ out[k].msg = "Error"
    /\ \E k \in 1..Len(out) : out[k].k = "render" /\ out[k].pass = 1 /\ out[k].items = <<>>

\* A watching run that sorted() left by a TypeError in its second pass,
\* after a first pass that was rendered: neither a return nor a next pass.
WatchLeftByTypeError ==
    /\ IsIncLs /\ opt.watch /\ npass = 2 /\ pc = "done"
    /\ result = "raise TypeError"
    /\ \E k \in 1..Len(out) : out[k].k = "render" /\ out[k].pass = 1

AlertCallsOfPass ==
    {k \in 1..Len(calls) : calls[k].op = "incidents.alerts" /\ calls[k].pass = npass}

\* The alerts stage of the current pass is over.
AlertsStageDone ==
    "alerts" \in StagesRun /\ pc \in {"transform", "sort", "render", "ack", "snooze",
                                      "resolve", "loop"}

\* C12: with alerts enabled, in each pass the remote alerts call is made
\* at most once per incident and only for the incidents the rule pass and
\* the enabled filters of that pass left, once for each of them when the
\* stage completes; an incident a filter removed causes no alerts call,
\* and with alerts disabled no alerts call is made.
C12_AlertsOncePerSurvivor ==
    IsIncLs =>
        /\ ~opt.alerts => AlertCallsOfPass = {}
        /\ AlertCallsOfPass # {} => "alerts" \in StagesRun
        /\ \A a, b \in AlertCallsOfPass : a # b => calls[a].arg # calls[b].arg
        /\ \A a \in AlertCallsOfPass : calls[a].arg \in IdSet(incs)
        /\ \A a \in AlertCallsOfPass :
             \A k \in FetchOfPass \cup RulesOfPass
                      \cup {n \in 1..Len(calls) : calls[n].op = "incidents.apply"
                                                  /\ calls[n].pass = npass} : k < a
        /\ AlertCallsOfPass # {} =>
             \A n \in 1..Len(SourceOfPass) :
                SourceOfPass[n]["id"] \notin IdSet(incs)
                  => \A a \in AlertCallsOfPass : calls[a].arg # SourceOfPass[n]["id"]
        /\ AlertsStageDone =>
             /\ {calls[a].arg : a \in AlertCallsOfPass} = IdSet(incs)
             /\ Cardinality(AlertCallsOfPass) = Len(incs)

\* The alerts of the two incidents a filter left of three, in the
\* second pass or in a single one.
C12_Witness ==
    /\ IsIncLs /\ opt.alerts /\ AlertsStageDone
    /\ Len(SourceOfPass) = 3 /\ Len(incs) = 2
    /\ Cardinality(AlertCallsOfPass) = 2

\* What holds of the state the passes share.
PassesShareNothing ==
    (IsIncLs /\ pc # "start" /\ (pc = "done" => FetchesMade # {})) =>
        /\ \A k \in FetchesMade : calls[k].arg = FetchArgs
        /\ \A j, k \in FetchesMade : calls[j].arg = calls[k].arg
        /\ Cardinality(FetchesMade) = (IF pc = "fetch" THEN npass - 1 ELSE npass)
        /\ Cardinality({k \in 1..Len(fields) : fields[k] = "alerts"})
             = (IF opt.alerts THEN 1 ELSE 0)
        /\ pc = "rules" =>
             /\ FetchOfPass # {}
             /\ incs = calls[CHOOSE k \in FetchOfPass : TRUE].ret.v
             /\ \A n \in 1..Len(incs) :
                  "alerts" \notin DOMAIN incs[n] /\ incs[n]["service"].t = "dict"

\* Once the loop is entered no step changes fields or alert_fields.
ListsKept ==
    (IsIncLs /\ pc # "start") => (fields' = fields /\ alert_fields' = alert_fields)

\* C13: between the passes of the watching loop no pipeline state is
\* carried over: every pass fetches with the same userid, statuses,
\* urgencies and teams, uses the same fields and alert_fields ("alerts"
\* is in fields once when alerts is set, however many passes ran), and
\* starts from the records the fetch of that pass returned, which carry
\* nothing an earlier pass attached.
C13_PassesIndependent == []PassesShareNothing /\ [][ListsKept]_vars

\* The second pass after its fetch, the first pass having attached alerts
\* and overwritten the service of the records it was given.
C13_Witness ==
    /\ IsIncLs /\ opt.watch /\ npass = 2 /\ pc = "rules"
    /\ opt.alerts /\ Truthy(opt.service_re)
    /\ incs # <<>>
    /\ \E a \in 1..Len(calls) :
         /\ calls[a].op = "incidents.alerts" /\ calls[a].pass = 1
         /\ calls[a].arg \in IdSet(incs)

\* The rule passes of the current pass, error or not.
ApplyCallsOfPass ==
    {k \in 1..Len(calls) : calls[k].op = "incidents.apply" /\ calls[k].pass = npass}

PrintedInPass(msg) ==
    \E k \in 1..Len(out) : out[k].k = "print" /\ out[k].pass = npass /\ out[k].msg = msg

\* The rule pass of the current pass found no executable file.
NoScriptFound == \E k \in ApplyCallsOfPass : calls[k].scripts = 0

\* C14: with rules enabled and no executable file under the rules path,
\* the pass prints a warning and goes on: the executor is called with an
\* empty script list, neither callback fires, and the records entering
\* the filter stages are the fetched records in fetch order.
C14_NoRulesWarns ==
    (IsIncLs /\ NoScriptFound) =>
        /\ opt.rules
        /\ PrintedInPass("No rules found")
        /\ ~PrintedInPass("Applied rule") /\ ~PrintedInPass("Error")
        /\ \A k \in ApplyCallsOfPass :
             /\ calls[k].arg = calls[CHOOSE f \in FetchOfPass : TRUE].ret.v
             /\ calls[k].ret = List(calls[k].arg)
        /\ pc = "title_re" =>
             (result = "running" /\ incs = calls[CHOOSE f \in FetchOfPass : TRUE].ret.v)
        /\ "rules" \in StagesRun /\ pc # "rules"

\* Three fetched records entering the filters after the warning.
C14_Witness ==
    /\ IsIncLs /\ NoScriptFound /\ pc = "title_re"
    /\ Len(incs) = 3

\* The rule pass of the current pass returned an error text.
RuleFailed == \E k \in ApplyCallsOfPass : calls[k].ret.t = "str"

FetchedInPass == calls[CHOOSE f \in FetchOfPass : TRUE].ret.v

NoFilterSet ==
    /\ ~Truthy(opt.regexp) /\ ~Truthy(opt.excluded_filter_re)
    /\ ~Truthy(opt.service_re) /\ ~Truthy(opt.excluded_service_re)

\* C15: when the rule executor returns an error text instead of records,
\* the text is printed and the pass goes on with the fetched sequence as
\* it was fetched: the filters, the transformation, the render and the
\* enabled bulk actions run on those records, and nothing a script
\* produced before the error is used.
C15_RuleErrorContinues ==
    (IsIncLs /\ RuleFailed) =>
        /\ \E k \in 1..Len(out) :
             /\ out[k].k = "print" /\ out[k].pass = npass /\ out[k].msg = "ret"
             /\ \E c \in ApplyCallsOfPass : out[k].text = calls[c].ret
        /\ pc = "title_re" => (result = "running" /\ incs = FetchedInPass)
        /\ pc = "loop" =>
             /\ StagesRun = EnabledStages
             /\ RendersOfPass # {}
             /\ \A op \in BulkOps :
                  (\/ op = "incidents.ack" /\ opt.ack
                   \/ op = "incidents.snooze" /\ opt.snooze
                   \/ op = "incidents.resolve" /\ opt.resolve)
                    => \E c \in BulkCallsOfPass : calls[c].op = op
        /\ \A r \in RendersOfPass :
             /\ Len(out[r].items) <= Len(FetchedInPass)
             /\ NoFilterSet => Len(out[r].items) = Len(FetchedInPass)
        /\ \A c \in BulkCallsOfPass :
             /\ IdSet(calls[c].arg) \subseteq IdSet(FetchedInPass)
             /\ NoFilterSet => Ids(calls[c].arg) = Ids(FetchedInPass)

\* A pass that met a rule error and still rendered and acted on the
\* three records it fetched.
C15_Witness ==
    /\ IsIncLs /\ RuleFailed /\ pc = "loop"
    /\ \E r \in RendersOfPass : Len(out[r].items) = 3
    /\ \E c \in BulkCallsOfPass : Len(calls[c].arg) = 3

\* C16: when a pass of list_incidents detects an invalid sort field, the
\* command ends in that pass with a failure result and the two messages
\* as its last output: the pass renders nothing and issues no ack,
\* snooze or resolve call, whatever earlier passes rendered or did.
C16_InvalidSortAborts ==
    (IsIncLs /\ InvalidSortReported) =>
        /\ pc = "done" /\ result = (IF IsMain THEN "exit -2" ELSE "return False")
        /\ PrintedInPass("Invalid sort field") /\ PrintedInPass("Available fields")
        /\ Len(out) >= 2
        /\ out[Len(out) - 1] = Msg("Invalid sort field")
        /\ out[Len(out)] = Msg("Available fields")
        /\ \A st \in {"render", "ack", "snooze", "resolve"} : st \notin StagesRun
        /\ ~\E k \in 1..Len(out) : out[k].pass = npass /\ out[k].k \in {"render", "marked"}
        /\ ~\E c \in 1..Len(calls) : calls[c].pass = npass /\ calls[c].op \in BulkOps

\* The abort in the second pass of a watching run with a bulk action
\* enabled, the first pass having rendered.
C16_Witness ==
    /\ IsIncLs /\ InvalidSortReported /\ npass = 2
    /\ opt.resolve
    /\ \E k \in 1..Len(out) : out[k].k = "render" /\ out[k].pass = 1
    /\ \E c \in 1..Len(calls) : calls[c].pass = 1 /\ calls[c].op = "incidents.resolve"

MutatingCommands == {"ack", "resolve", "snooze", "reassign"}
MutatingOps ==
    {"incidents.ack", "incidents.resolve", "incidents.snooze", "incidents.reassign"}
MutatingCalls == {k \in 1..Len(calls) : calls[k].op \in MutatingOps}

\* The incidents the command fetched.
FetchedByCommand ==
    calls[CHOOSE k \in 1..Len(calls) :
            calls[k].op = "incidents.list" /\ "ret" \in DOMAIN calls[k]].ret.v

IdsAsked == {opt.incIDs[k] : k \in 1..Len(opt.incIDs)}
Asked(i) == i["id"] \in IdsAsked

\* C17: PDH.ack, PDH.resolve, PDH.snooze and PDH.reassign hand to the
\* remote call exactly the fetched incidents whose id is in the id list,
\* in fetch order: no incident with another id, nothing for an id that no
\* fetched incident has (and no error for it), no incident for an empty
\* list.
C17_ActsOnRequestedIds ==
    (opt.cmd \in MutatingCommands) =>
        /\ Cardinality(MutatingCalls) <= 1
        /\ \A c \in MutatingCalls :
             /\ calls[c].op = "incidents." \o opt.cmd
             /\ calls[c].arg = SelectSeq(FetchedByCommand, Asked)
             /\ IdSet(calls[c].arg) = IdSet(FetchedByCommand) \cap IdsAsked
             /\ \A n \in 1..Len(calls[c].arg) :
                  \E m \in 1..Len(FetchedByCommand) : calls[c].arg[n] = FetchedByCommand[m]
             /\ opt.incIDs = <<>> => calls[c].arg = <<>>
        /\ FailureResult = FALSE
        /\ result = "return None" => MutatingCalls # {}

\* A command that was asked for two ids, one of them of no fetched
\* incident, and acted on one incident of three.
C17_Witness ==
    /\ opt.cmd \in MutatingCommands /\ result = "return None"
    /\ Len(opt.incIDs) = 2
    /\ Len(FetchedByCommand) = 3
    /\ \E c \in MutatingCalls : Len(calls[c].arg) = 1

\* What list_incidents of core.py displays for the records l, and what
\* its sort stage makes of the records p: it sorts on the list
\* [x[k] for k in sort_fields], also for a single field.
CoreDisplayed(l) ==
    IF opt.output = "raw" THEN l
    ELSE TransformationsApply(l, BuildTable(fields, alert_fields,
                                            "%Y-%m-%dT%H:%M:%S%z", EmptyTable), FALSE)

CoreSortOutcome(p) ==
    IF MissingKey(p, SortedOn) THEN [how |-> "invalid sort field"]
    ELSE IF TypeErrorRaised(p, SortedOn, FALSE) THEN [how |-> "TypeError"]
    ELSE [how |-> "sorted", items |-> Sorted(p, SortedOn, FALSE, opt.reverse_sort)]

SortOutcome ==
    IF InvalidSortReported /\ FailureResult THEN [how |-> "invalid sort field"]
    ELSE IF result = "raise TypeError" THEN [how |-> "TypeError"]
    ELSE [how |-> "sorted", items |-> filtered]

TitlePatternMalformed ==
    \/ Truthy(opt.regexp) /\ ReMalformed(opt.regexp)
    \/ Truthy(opt.excluded_filter_re) /\ ReMalformed(opt.excluded_filter_re)

\* C18 (as claimed): inc ls of main.py and list_incidents of core.py are
\* one pipeline: on the same options and the same answers of the remote
\* and of the rule executor, every run of either fetches with the
\* arguments, displays the records, sorts them and fails as
\* list_incidents of core.py does on the records of that pass, and
\* renders what that sort yields.
C18_SamePipeline ==
    IsIncLs =>
        /\ \A k \in FetchesMade : calls[k].arg = FetchArgs
        /\ (pc = "done" /\ calls = <<>>) => (TitlePatternMalformed /\ FailureResult)
        /\ (TitlePatternMalformed /\ pc # "start") => (calls = <<>> /\ FailureResult)
        /\ pc = "sort" => filtered = CoreDisplayed(incs)
        /\ SortRan => SortOutcome = CoreSortOutcome(CoreDisplayed(incs))
        /\ \A r \in RendersOfPass :
             out[r].items = (IF TruthyCsv(opt.sort_by)
                             THEN Sorted(CoreDisplayed(incs), SortedOn, FALSE, opt.reverse_sort)
                             ELSE CoreDisplayed(incs))
        /\ \A c \in BulkCallsOfPass : calls[c].arg = incs

====
